---- MODULE Spec2Model ----
(***************************************************************************)
(* Store monitoring service (src/main.py): the uptime/downtime estimation  *)
(* of compute_store_metrics and the report job life cycle of               *)
(* trigger_report / generate_report / get_report.                          *)
(*                                                                         *)
(* Time.  A datetime is a record [t, aware]: t counts sub-second units of  *)
(* wall-clock time since Monday 00:00:00 of the model's first week, aware  *)
(* tells whether the value carries tzinfo (UTC) or is naive.  The model's  *)
(* dates lie in winter, so a zone has one UTC offset throughout.           *)
(*                                                                         *)
(* Text.  A timestamp string is a record [wall, sfx]: the date-time digits *)
(* (as the instant they denote, written with a fixed number of digits) and *)
(* the text that follows them: "", "Z" or " UTC".  A time-of-day string    *)
(* "HH:MM:SS" is the tuple <<HH, MM, SS>>.                                  *)
(*                                                                         *)
(* Numbers.  A float figure n/d is the pair <<n, d>>; RatEq compares two   *)
(* figures by value.                                                       *)
(***************************************************************************)
EXTENDS Integers, Sequences, FiniteSets, TLC

VARIABLES
    store_status,    \* table store_status: rows [store_id, timestamp_utc, status]
    business_hours,  \* table business_hours: rows [store_id, day_of_week, start_time_local, end_time_local]
    store_timezone,  \* table store_timezone: rows [store_id, timezone_str]
    report_status,   \* table report_status: report_id -> [status, csv_path]
    files,           \* CSV files of the working directory: path -> sequence of rows
    system_tz,       \* UTC offset of the host's local zone (used by astimezone on naive values)
    task,            \* background tasks: report_id -> locals and position of generate_report
    resp,            \* the last response of get_report
    call,            \* arguments of a direct call of compute_store_metrics
    metrics          \* what that call returned

vars == <<store_status, business_hours, store_timezone, report_status, files,
          system_tz, task, resp, call, metrics>>

db == <<store_status, business_hours, store_timezone>>

-----------------------------------------------------------------------------
(* Bounds of the model *)

SubSec == 2        \* sub-second units per second
MaxObs == 2        \* observations per store timeline (metrics specification)
MaxJobs == 1       \* report jobs triggered (service specification)

(* Durations, in units *)
SECOND == SubSec
MINUTE == 60 * SECOND
HOUR == 60 * MINUTE
DAY == 24 * HOUR
WEEK == 7 * DAY

-----------------------------------------------------------------------------
(* Numbers *)

Float(n) == <<n, 1>>

Div60(n) == <<n, 60>>

RatEq(a, b) == a[1] * b[2] = b[1] * a[2]

RatIsZero(a) == a[1] = 0

\* max(0, x)
max0(x) == IF x[1] * x[2] < 0 THEN Float(0) ELSE x

-----------------------------------------------------------------------------
(* Timestamp text *)

Suffixes == {"", "Z", " UTC"}

\* rank of the suffix in the text order: end of string < ' ' < 'Z'
SfxRank(sfx) == CASE sfx = "" -> 0 [] sfx = " UTC" -> 1 [] sfx = "Z" -> 2

\* TEXT comparison of two timestamp strings, as ORDER BY and MAX of SQLite do
StrLeq(a, b) == \/ a.wall < b.wall
                \/ a.wall = b.wall /\ SfxRank(a.sfx) <= SfxRank(b.sfx)

\* timestamp_str.replace('Z', '+00:00')
replace_Z(s) == [wall |-> s.wall,
                 sfx |-> CASE s.sfx = "Z" -> "+00:00"
                           [] s.sfx = " UTC" -> " UTC"
                           [] OTHER -> s.sfx]

\* datetime.fromisoformat: an offset gives an aware value, no offset a naive
\* one, any other trailing text is a ValueError
fromisoformat(s) ==
    CASE s.sfx = "+00:00" -> [ok |-> TRUE, dt |-> [t |-> s.wall, aware |-> TRUE]]
      [] s.sfx = ""       -> [ok |-> TRUE, dt |-> [t |-> s.wall, aware |-> FALSE]]
      [] OTHER            -> [ok |-> FALSE, dt |-> [t |-> 0, aware |-> FALSE]]

parse_timestamp(s) == fromisoformat(replace_Z(s))

-----------------------------------------------------------------------------
(* Zones *)

DefaultZone == "America/Chicago"

KnownZones == {"America/Chicago", "Asia/Kolkata"}

\* pytz.timezone(name) raises UnknownTimeZoneError for any other name
utcoffset(tz) == CASE tz = "America/Chicago" -> 0 - 6 * HOUR
                   [] tz = "Asia/Kolkata" -> 5 * HOUR + 30 * MINUTE

\* dt.astimezone(tz): the local wall clock in tz; a naive dt is taken to be
\* in the host's local zone
astimezone(dt, tz) ==
    LET utc == IF dt.aware THEN dt.t ELSE dt.t - system_tz
    IN  utc + utcoffset(tz)

weekday(wall) == (wall \div DAY) % 7

time_of_day(wall) == wall % DAY

\* datetime.strptime(s, "%H:%M:%S").time()
strptime_time(s) == ((s[1] * 60 + s[2]) * 60 + s[3]) * SECOND

-----------------------------------------------------------------------------
(* Queries *)

get_store_timezone(store_id) ==
    LET rows == {r \in store_timezone : r.store_id = store_id}
    IN  IF rows # {} THEN (CHOOSE r \in rows : TRUE).timezone_str
        ELSE DefaultZone

get_business_hours(store_id) ==
    LET rows == {r \in business_hours : r.store_id = store_id}
        days == {r.day_of_week : r \in rows}
    IN  IF rows = {}
        THEN [day \in 0..6 |-> <<(<<0, 0, 0>>), (<<23, 59, 59>>)>>]
        ELSE [day \in days |->
                LET r == CHOOSE q \in rows : q.day_of_week = day
                IN  <<r.start_time_local, r.end_time_local>>]

RECURSIVE OrderByTimestamp(_)
OrderByTimestamp(rows) ==
    IF rows = {} THEN <<>>
    ELSE LET first == CHOOSE r \in rows :
                         \A q \in rows : StrLeq(r.timestamp_utc, q.timestamp_utc)
         IN  <<first>> \o OrderByTimestamp(rows \ {first})

\* the rows of the store in TEXT order, each timestamp parsed; raised when a
\* timestamp does not parse
get_store_observations(store_id) ==
    LET rows == OrderByTimestamp({r \in store_status : r.store_id = store_id})
        parsed == [i \in 1..Len(rows) |-> parse_timestamp(rows[i].timestamp_utc)]
    IN  IF \E i \in 1..Len(rows) : ~parsed[i].ok
        THEN [raised |-> TRUE, observations |-> <<>>]
        ELSE [raised |-> FALSE,
              observations |-> [i \in 1..Len(rows) |->
                                  [ts |-> parsed[i].dt, status |-> rows[i].status]]]

is_within_business_hours(dt_local, hours) ==
    LET day_of_week == weekday(dt_local)
    IN  IF day_of_week \notin DOMAIN hours THEN FALSE
        ELSE LET start_time == strptime_time(hours[day_of_week][1])
                 end_time == strptime_time(hours[day_of_week][2])
                 current_time == time_of_day(dt_local)
             IN  IF start_time <= end_time
                 THEN start_time <= current_time /\ current_time <= end_time
                 ELSE current_time >= start_time \/ current_time <= end_time

-----------------------------------------------------------------------------
(* compute_store_metrics *)

\* timedelta(hours=1), timedelta(days=1), timedelta(weeks=1)
period_length(period_name) ==
    CASE period_name = "hour" -> HOUR
      [] period_name = "day" -> DAY
      [] period_name = "week" -> WEEK

period_start(period_name, current_utc) ==
    [t |-> current_utc.t - period_length(period_name), aware |-> current_utc.aware]

\* comparing a naive with an aware datetime is a TypeError
comparable(a, b) == a.aware = b.aware

\* [(ts, status) for ts, status in observations if period_start <= ts <= current_utc]
period_observations(observations, start, current_utc) ==
    SelectSeq(observations, LAMBDA o : start.t <= o.ts.t /\ o.ts.t <= current_utc.t)

\* the values current_dt takes in "while current_dt < current_utc", stepping
\* by one minute from the period start
ticks(start, current_utc) ==
    LET n == IF start.t < current_utc.t
             THEN ((current_utc.t - start.t - 1) \div MINUTE) + 1
             ELSE 0
    IN  {[t |-> start.t + k * MINUTE, aware |-> start.aware] : k \in 0..(n - 1)}

\* the status the inner loop leaves in closest_obs: that of the last entry of
\* the list with obs_time <= current_dt, None when there is none
closest_obs(obs_list, current_dt) ==
    LET idx == {i \in 1..Len(obs_list) : obs_list[i].ts.t <= current_dt.t}
    IN  IF idx = {} THEN "None"
        ELSE obs_list[CHOOSE i \in idx : \A j \in idx : j <= i].status

\* the ticks counted in total_business_minutes
business_ticks(start, current_utc, tz, hours) ==
    {d \in ticks(start, current_utc) :
        is_within_business_hours(astimezone(d, tz), hours)}

\* the ticks counted in uptime_minutes
uptime_ticks(open, obs_list) ==
    {d \in open : closest_obs(obs_list, d) = "active"}

\* The figures after the loop.  The "if period_name == 'hour'" block sits in
\* the body of the while loop and the "else" belongs to the while statement:
\* the loop has no break, so the else clause runs for every period and sets
\* both figures last.
figures(period_name, total_business_minutes, uptime_minutes) ==
    LET uptime == Div60(uptime_minutes)
        downtime == Div60(total_business_minutes - uptime_minutes)
    IN  <<max0(uptime), max0(downtime)>>

\* period_metrics without the "if not period_observations" early exit: the
\* tick loop runs over a window that holds no observation
period_metrics_no_guard(period_name, observations, current_utc, tz, hours) ==
    LET start == period_start(period_name, current_utc)
        obs_list == period_observations(observations, start, current_utc)
        open == business_ticks(start, current_utc, tz, hours)
        up == uptime_ticks(open, obs_list)
    IN  figures(period_name, Cardinality(open), Cardinality(up))

\* one iteration of the loop over the three periods: what it appends to metrics
period_metrics(period_name, observations, current_utc, tz, hours) ==
    LET start == period_start(period_name, current_utc)
        obs_list == period_observations(observations, start, current_utc)
    IN  IF obs_list = <<>> THEN <<Float(0), Float(0)>>
        ELSE LET open == business_ticks(start, current_utc, tz, hours)
                 up == uptime_ticks(open, obs_list)
             IN  figures(period_name, Cardinality(open), Cardinality(up))

no_metrics == <<>>

\* the result of a call: the exception it raised ("" when it returned) and
\* the list it returned
compute_store_metrics(store_id, current_utc) ==
    LET timezone_str == get_store_timezone(store_id)
        hours == get_business_hours(store_id)
        got == get_store_observations(store_id)
        observations == got.observations
    IN  IF got.raised THEN [raised |-> "ValueError", metrics |-> no_metrics]
        ELSE IF observations = <<>>
        THEN [raised |-> "", metrics |-> <<Float(0), Float(0), Float(0), Float(0), Float(0), Float(0)>>]
        ELSE IF timezone_str \notin KnownZones
        THEN [raised |-> "UnknownTimeZoneError", metrics |-> no_metrics]
        ELSE IF \E i \in 1..Len(observations) : ~comparable(observations[i].ts, current_utc)
        THEN [raised |-> "TypeError", metrics |-> no_metrics]
        ELSE [raised |-> "",
              metrics |-> period_metrics("hour", observations, current_utc, timezone_str, hours)
                          \o period_metrics("day", observations, current_utc, timezone_str, hours)
                          \o period_metrics("week", observations, current_utc, timezone_str, hours)]

-----------------------------------------------------------------------------
(* The data the model draws from *)

Stores == {"s1", "s2"}

Statuses == {"active", "inactive"}

\* Monday of the third week, 06:30:00 UTC (00:30 in America/Chicago)
Base == 14 * DAY + 6 * HOUR + 30 * MINUTE

\* seconds and fraction of a second of the dataset's latest timestamp
Phases == {0, 59 * SECOND + 1}

\* how long before the latest timestamp an observation was taken
Offsets == {0, 30 * MINUTE, 2 * DAY, 8 * DAY}

\* local zones of the host
SystemZones == {0, 5 * HOUR + 30 * MINUTE}

ZoneNames == {"Asia/Kolkata", "Mars/Phobos"}

status_row(store_id, wall, sfx, status) ==
    [store_id |-> store_id,
     timestamp_utc |-> [wall |-> wall, sfx |-> sfx],
     status |-> status]

\* the timelines of a store: at most max observations at distinct instants,
\* all written in the same format
Timelines(store_id, latest, sfx, offsets, max) ==
    {rows \in SUBSET {status_row(store_id, latest - off, sfx, st) :
                         off \in offsets, st \in Statuses} :
        /\ rows # {}
        /\ Cardinality(rows) <= max
        /\ \A r, q \in rows : r.timestamp_utc = q.timestamp_utc => r = q}

hours_row(store_id, day, start, end) ==
    [store_id |-> store_id, day_of_week |-> day,
     start_time_local |-> start, end_time_local |-> end]

\* no rows; Monday to Friday 09:00:00-17:00:00; every day 22:00:00-02:00:00
Schedules(store_id) ==
    { {},
      {hours_row(store_id, d, <<9, 0, 0>>, <<17, 0, 0>>) : d \in 0..4},
      {hours_row(store_id, d, <<22, 0, 0>>, <<2, 0, 0>>) : d \in 0..6} }

\* no row, or one row naming a zone
ZoneTables(store_id, names) ==
    {{}} \cup {{[store_id |-> store_id, timezone_str |-> z]} : z \in names}

-----------------------------------------------------------------------------
(* Report jobs *)

ReportIds == 1..MaxJobs

no_response == [report_id |-> 0, kind |-> "none", body |-> <<>>]

no_call == [store_id |-> "", current_utc |-> [t |-> 0, aware |-> FALSE]]

not_called == [raised |-> "pending", metrics |-> no_metrics]

\* f"report_{report_id}.csv"
csv_path_of(report_id) == <<"report_", report_id, ".csv">>

no_path == <<>>

-----------------------------------------------------------------------------
(* Specification of a direct call of compute_store_metrics: the tables hold *)
(* one store, current_utc is the dataset's latest timestamp, which no      *)
(* timestamp of the store follows in text order.                           *)

InitMetrics ==
    /\ system_tz \in SystemZones
    /\ \E ph \in Phases, asfx \in {"", "Z"}, sfx \in Suffixes :
         LET latest == [wall |-> Base + ph, sfx |-> asfx]
         IN  /\ call = [store_id |-> "s1", current_utc |-> parse_timestamp(latest).dt]
             /\ store_status \in
                  {rows \in Timelines("s1", latest.wall, sfx, Offsets, MaxObs) :
                      \A r \in rows : StrLeq(r.timestamp_utc, latest)}
    /\ business_hours \in Schedules("s1")
    /\ store_timezone \in ZoneTables("s1", ZoneNames)
    /\ report_status = <<>>
    /\ files = <<>>
    /\ task = <<>>
    /\ resp = no_response
    /\ metrics = not_called

call_compute_store_metrics ==
    /\ metrics = not_called
    /\ call # no_call
    /\ metrics' = compute_store_metrics(call.store_id, call.current_utc)
    /\ UNCHANGED <<db, report_status, files, system_tz, task, resp, call>>

NextMetrics == call_compute_store_metrics

SpecMetrics == InitMetrics /\ [][NextMetrics]_vars

-----------------------------------------------------------------------------
(* Specification of the service: the tables as ingested at startup, then   *)
(* trigger_report, the steps of the background task generate_report, and   *)
(* get_report, interleaved.                                                *)

\* the observations of a store of the service's dataset: s1 was seen active
\* half an hour before Base, every other store inactive at Base
service_rows(store_id, sfx) ==
    IF store_id = "s1"
    THEN {status_row(store_id, Base - 30 * MINUTE, sfx, "active")}
    ELSE {status_row(store_id, Base, sfx, "inactive")}

\* any subset of the stores has observations, written with "Z" or " UTC";
\* a store with observations may have a row naming an unknown zone; the
\* host runs in UTC
Init ==
    /\ system_tz = 0
    /\ \E sfx \in {"Z", " UTC"}, present \in SUBSET Stores :
         store_status = UNION {service_rows(s, sfx) : s \in present}
    /\ business_hours = {}
    /\ \E named \in SUBSET {r.store_id : r \in store_status} :
         store_timezone = UNION {[store_id : {s}, timezone_str : {"Mars/Phobos"}] : s \in named}
    /\ report_status = <<>>
    /\ files = <<>>
    /\ task = <<>>
    /\ resp = no_response
    /\ call = no_call
    /\ metrics = not_called

\* POST /trigger_report: a fresh id, a Running row, the task handed to
\* BackgroundTasks
trigger_report ==
    LET report_id == Cardinality(DOMAIN report_status) + 1
    IN  /\ report_id \in ReportIds
        /\ report_status' = report_status @@
             (report_id :> [status |-> "Running", csv_path |-> no_path])
        /\ task' = task @@
             (report_id :> [pc |-> "scheduled",
                            current_utc |-> no_call.current_utc,
                            store_ids |-> <<>>,
                            report_rows |-> <<>>,
                            exc |-> "",
                            failed_store |-> ""])
        /\ UNCHANGED <<db, files, system_tz, resp, call, metrics>>

\* SELECT MAX(timestamp_utc): the greatest text, NULL on an empty table
max_timestamp_str == CHOOSE r \in store_status :
                        \A q \in store_status : StrLeq(q.timestamp_utc, r.timestamp_utc)

\* the orders SELECT DISTINCT store_id may return the ids in
distinct_store_ids ==
    LET ids == {r.store_id : r \in store_status}
    IN  {seq \in [1..Cardinality(ids) -> ids] :
            \A i, j \in 1..Cardinality(ids) : i # j => seq[i] # seq[j]}

\* generate_report up to the loop: the anchor and the store ids
gen_start(report_id) ==
    /\ report_id \in DOMAIN task
    /\ task[report_id].pc = "scheduled"
    /\ IF store_status = {}
       THEN task' = [task EXCEPT ![report_id].pc = "except",
                                 ![report_id].exc = "AttributeError"]
       ELSE LET parsed == parse_timestamp(max_timestamp_str.timestamp_utc)
            IN  IF ~parsed.ok
                THEN task' = [task EXCEPT ![report_id].pc = "except",
                                          ![report_id].exc = "ValueError"]
                ELSE \E ids \in distinct_store_ids :
                        task' = [task EXCEPT ![report_id].pc = "loop",
                                             ![report_id].current_utc = parsed.dt,
                                             ![report_id].store_ids = ids]
    /\ UNCHANGED <<db, report_status, files, system_tz, resp, call, metrics>>

\* gen_store with the exception caught inside the loop: the store that
\* raised is left out and the loop goes on
gen_store_skips_failed(report_id) ==
    /\ report_id \in DOMAIN task
    /\ task[report_id].pc = "loop"
    /\ task[report_id].store_ids # <<>>
    /\ LET store_id == Head(task[report_id].store_ids)
           r == compute_store_metrics(store_id, task[report_id].current_utc)
       IN  IF r.raised # ""
           THEN task' = [task EXCEPT ![report_id].store_ids = Tail(@),
                                     ![report_id].exc = r.raised,
                                     ![report_id].failed_store = store_id]
           ELSE task' = [task EXCEPT
                           ![report_id].store_ids = Tail(@),
                           ![report_id].report_rows = Append(@, <<store_id>> \o r.metrics)]
    /\ UNCHANGED <<db, report_status, files, system_tz, resp, call, metrics>>

\* one iteration of "for store_id in store_ids"
gen_store(report_id) ==
    /\ report_id \in DOMAIN task
    /\ task[report_id].pc = "loop"
    /\ task[report_id].store_ids # <<>>
    /\ LET store_id == Head(task[report_id].store_ids)
           r == compute_store_metrics(store_id, task[report_id].current_utc)
       IN  IF r.raised # ""
           THEN task' = [task EXCEPT ![report_id].pc = "except",
                                     ![report_id].exc = r.raised,
                                     ![report_id].failed_store = store_id]
           ELSE task' = [task EXCEPT
                           ![report_id].store_ids = Tail(@),
                           ![report_id].report_rows = Append(@, <<store_id>> \o r.metrics)]
    /\ UNCHANGED <<db, report_status, files, system_tz, resp, call, metrics>>

\* pd.DataFrame(report_rows, columns=[...]): the columns name the entries of
\* each row by position
DataFrame(report_rows) ==
    [i \in 1..Len(report_rows) |->
        [store_id |-> report_rows[i][1],
         uptime_last_hour |-> report_rows[i][2],
         uptime_last_day |-> report_rows[i][3],
         uptime_last_week |-> report_rows[i][4],
         downtime_last_hour |-> report_rows[i][5],
         downtime_last_day |-> report_rows[i][6],
         downtime_last_week |-> report_rows[i][7]]]

\* df.to_csv(csv_path)
gen_write(report_id) ==
    /\ report_id \in DOMAIN task
    /\ task[report_id].pc = "loop"
    /\ task[report_id].store_ids = <<>>
    /\ files' = [p \in DOMAIN files \cup {csv_path_of(report_id)} |->
                   IF p = csv_path_of(report_id)
                   THEN DataFrame(task[report_id].report_rows)
                   ELSE files[p]]
    /\ task' = [task EXCEPT ![report_id].pc = "written"]
    /\ UNCHANGED <<db, report_status, system_tz, resp, call, metrics>>

\* gen_commit with an UPDATE that sets the status and leaves csv_path as
\* trigger_report inserted it
gen_commit_no_path(report_id) ==
    /\ report_id \in DOMAIN task
    /\ task[report_id].pc = "written"
    /\ report_status' = [report_status EXCEPT ![report_id].status = "Complete"]
    /\ task' = [task EXCEPT ![report_id].pc = "done"]
    /\ UNCHANGED <<db, files, system_tz, resp, call, metrics>>

\* UPDATE report_status SET status = 'Complete', csv_path = ...; commit
gen_commit(report_id) ==
    /\ report_id \in DOMAIN task
    /\ task[report_id].pc = "written"
    /\ report_status' = [report_status EXCEPT
                           ![report_id] = [status |-> "Complete",
                                           csv_path |-> csv_path_of(report_id)]]
    /\ task' = [task EXCEPT ![report_id].pc = "done"]
    /\ UNCHANGED <<db, files, system_tz, resp, call, metrics>>

\* except Exception: UPDATE report_status SET status = 'Failed'; commit
gen_except(report_id) ==
    /\ report_id \in DOMAIN task
    /\ task[report_id].pc = "except"
    /\ report_status' = [report_status EXCEPT ![report_id].status = "Failed"]
    /\ task' = [task EXCEPT ![report_id].pc = "done"]
    /\ UNCHANGED <<db, files, system_tz, resp, call, metrics>>

generate_report(report_id) ==
    \/ gen_start(report_id)
    \/ gen_store(report_id)
    \/ gen_write(report_id)
    \/ gen_commit(report_id)
    \/ gen_except(report_id)

\* what GET /get_report answers
report_response(report_id) ==
    IF report_id \notin DOMAIN report_status
    THEN [report_id |-> report_id, kind |-> "Report not found", body |-> <<>>]
    ELSE LET status == report_status[report_id].status
             csv_path == report_status[report_id].csv_path
         IN  IF status = "Running"
             THEN [report_id |-> report_id, kind |-> "Running", body |-> <<>>]
             ELSE IF status = "Complete" /\ csv_path # no_path /\ csv_path \in DOMAIN files
             THEN [report_id |-> report_id, kind |-> "FileResponse", body |-> files[csv_path]]
             ELSE [report_id |-> report_id, kind |-> "Failed", body |-> <<>>]

get_report(report_id) ==
    /\ resp' = report_response(report_id)
    /\ UNCHANGED <<db, report_status, files, system_tz, task, call, metrics>>

Next ==
    \/ trigger_report
    \/ \E report_id \in ReportIds : generate_report(report_id)
    \/ \E report_id \in ReportIds : get_report(report_id)

Spec == Init /\ [][Next]_vars

-----------------------------------------------------------------------------
(* What the claims speak of *)

called == metrics # not_called

returned == called /\ metrics.raised = ""

\* the zone the store's metrics are to be computed in: its own when it names
\* a known zone, the default otherwise
resolved_zone(store_id) ==
    IF get_store_timezone(store_id) \in KnownZones
    THEN get_store_timezone(store_id)
    ELSE DefaultZone

timeline(store_id) == get_store_observations(store_id).observations

\* the observations of the store that lie in the window
in_window(store_id, period_name, current_utc) ==
    {i \in 1..Len(timeline(store_id)) :
        /\ current_utc.t - period_length(period_name) <= timeline(store_id)[i].ts.t
        /\ timeline(store_id)[i].ts.t <= current_utc.t}

\* open_minutes and active_minutes of a window, as the tick loop counts them
open_minutes(store_id, period_name, current_utc) ==
    Cardinality(business_ticks(period_start(period_name, current_utc), current_utc,
                               resolved_zone(store_id), get_business_hours(store_id)))

active_minutes(store_id, period_name, current_utc) ==
    LET start == period_start(period_name, current_utc)
    IN  Cardinality(uptime_ticks(
            business_ticks(start, current_utc, resolved_zone(store_id),
                           get_business_hours(store_id)),
            period_observations(timeline(store_id), start, current_utc)))

\* position of a window's uptime in the list compute_store_metrics returns;
\* its downtime follows it
slot(period_name) ==
    CASE period_name = "hour" -> 1 [] period_name = "day" -> 3 [] period_name = "week" -> 5

PeriodNames == {"hour", "day", "week"}

\* the UTC instant a parsed timestamp stands for where the code uses it
utc_instant(dt) == IF dt.aware THEN dt.t ELSE dt.t - system_tz

-----------------------------------------------------------------------------
\* C1: the list compute_store_metrics returns holds, for the last hour, the
\* raw minute counts (uptime = active_minutes, downtime = open_minutes -
\* active_minutes) and, for the last day and the last week, the minute
\* counts divided by 60.
C1_Units ==
    returned =>
        \A p \in PeriodNames :
            LET open == open_minutes(call.store_id, p, call.current_utc)
                active == active_minutes(call.store_id, p, call.current_utc)
                empty == in_window(call.store_id, p, call.current_utc) = {}
                up == IF empty THEN 0 ELSE active
                down == IF empty THEN 0 ELSE open - active
            IN  IF p = "hour"
                THEN /\ RatEq(metrics.metrics[slot(p)], Float(up))
                     /\ RatEq(metrics.metrics[slot(p) + 1], Float(down))
                ELSE /\ RatEq(metrics.metrics[slot(p)], Div60(up))
                     /\ RatEq(metrics.metrics[slot(p) + 1], Div60(down))

\* the figures the code computes for a window of a store
window_figures(store_id, period_name, current_utc) ==
    LET r == compute_store_metrics(store_id, current_utc)
    IN  <<r.metrics[slot(period_name)], r.metrics[slot(period_name) + 1]>>

\* C2: in every row of a written report, each column holds the figure it
\* names: uptime_last_W the uptime and downtime_last_W the downtime computed
\* for window W of the row's store.
C2_Columns ==
    \A id \in DOMAIN task :
        csv_path_of(id) \in DOMAIN files =>
            \A i \in 1..Len(files[csv_path_of(id)]) :
                LET row == files[csv_path_of(id)][i]
                    hour == window_figures(row.store_id, "hour", task[id].current_utc)
                    day == window_figures(row.store_id, "day", task[id].current_utc)
                    week == window_figures(row.store_id, "week", task[id].current_utc)
                IN  /\ RatEq(row.uptime_last_hour, hour[1])
                    /\ RatEq(row.downtime_last_hour, hour[2])
                    /\ RatEq(row.uptime_last_day, day[1])
                    /\ RatEq(row.downtime_last_day, day[2])
                    /\ RatEq(row.uptime_last_week, week[1])
                    /\ RatEq(row.downtime_last_week, week[2])

\* C3: in a window that holds an observation, the status counted for a
\* business-hours tick is that of the latest observation of the store's
\* whole timeline at or before the tick, observations from before the
\* window start included.
C3_CarryForward ==
    returned =>
        \A p \in PeriodNames :
            LET start == period_start(p, call.current_utc)
                obs_list == period_observations(timeline(call.store_id), start, call.current_utc)
            IN  obs_list # <<>> =>
                    \A d \in business_ticks(start, call.current_utc,
                                            resolved_zone(call.store_id),
                                            get_business_hours(call.store_id)) :
                        closest_obs(obs_list, d) = closest_obs(timeline(call.store_id), d)

metrics_in_zone(store_id, current_utc, tz) ==
    period_metrics("hour", timeline(store_id), current_utc, tz, get_business_hours(store_id))
    \o period_metrics("day", timeline(store_id), current_utc, tz, get_business_hours(store_id))
    \o period_metrics("week", timeline(store_id), current_utc, tz, get_business_hours(store_id))

\* C5: for a store whose timezone row is absent or names no known zone, the
\* call raises no zone error, and where nothing else fails it returns the
\* metrics computed in the default zone America/Chicago.
C5_ZoneFallback ==
    ( /\ called
      /\ get_store_timezone(call.store_id) \notin KnownZones \ {DefaultZone}
      /\ ~get_store_observations(call.store_id).raised
      /\ \A i \in 1..Len(timeline(call.store_id)) :
            comparable(timeline(call.store_id)[i].ts, call.current_utc) )
    => /\ metrics.raised = ""
       /\ metrics.metrics = metrics_in_zone(call.store_id, call.current_utc, DefaultZone)

\* C6: the three representations of a wall-clock UTC value (trailing "Z",
\* trailing " UTC", bare) all parse, and all to that UTC instant.
C6_SameInstant ==
    called =>
        \A r \in store_status : \A sfx \in Suffixes :
            LET p == parse_timestamp([wall |-> r.timestamp_utc.wall, sfx |-> sfx])
            IN  p.ok /\ utc_instant(p.dt) = r.timestamp_utc.wall

\* C7: get_report answers Running as long as generate_report has not
\* committed a terminal status for the job; once it has, the answer is the
\* written report if the job completed and Failed if it failed.
C7_Polling ==
    [][\A id \in ReportIds :
          id \in DOMAIN task /\ get_report(id) =>
              IF task[id].pc # "done"
              THEN resp'.kind = "Running"
              ELSE IF task[id].exc = ""
              THEN /\ resp'.kind = "FileResponse"
                   /\ resp'.body = DataFrame(task[id].report_rows)
              ELSE resp'.kind = "Failed"]_vars

\* C7 witness: a finished, completed job whose report get_report has
\* returned.
C7_Witness ==
    \E id \in DOMAIN task :
        /\ task[id].pc = "done"
        /\ task[id].exc = ""
        /\ resp.report_id = id
        /\ resp.kind = "FileResponse"
        /\ resp.body # <<>>

\* C8: once compute_store_metrics has raised for a store of a job, the job
\* is never Complete, no report file of the job exists or can be fetched,
\* and the finished job is Failed.
C8_AllOrNothing ==
    \A id \in DOMAIN task :
        task[id].failed_store # "" =>
            /\ report_status[id].status # "Complete"
            /\ csv_path_of(id) \notin DOMAIN files
            /\ report_response(id).kind # "FileResponse"
            /\ task[id].pc = "done" => report_status[id].status = "Failed"

\* C8 witness: a finished job in which the second store raised after the
\* first store's row had been computed, polled as Failed.
C8_Witness ==
    \E id \in DOMAIN task :
        /\ task[id].failed_store # ""
        /\ task[id].report_rows # <<>>
        /\ task[id].pc = "done"
        /\ resp = [report_id |-> id, kind |-> "Failed", body |-> <<>>]

\* C9: a store without business-hours rows gets (00:00:00, 23:59:59) for
\* all seven days and is within business hours at every tick of the week,
\* in every zone.
C9_AlwaysOpen ==
    called /\ business_hours = {} =>
        /\ get_business_hours(call.store_id)
              = [day \in 0..6 |-> <<(<<0, 0, 0>>), (<<23, 59, 59>>)>>]
        /\ \A tz \in KnownZones :
              \A d \in ticks(period_start("week", call.current_utc), call.current_utc) :
                  is_within_business_hours(astimezone(d, tz),
                                           get_business_hours(call.store_id))

\* C10: the tick loop of a window visits exactly window_start + k minutes
\* for 0 <= k < N, N = 60, 1440, 10080; so a store open 24/7 whose only
\* observation is active and taken at the anchor has, for the last hour,
\* open_minutes = 60 and active_minutes = 0.
C10_Ticks ==
    returned =>
        /\ \A p \in PeriodNames :
              LET n == CASE p = "hour" -> 60 [] p = "day" -> 1440 [] p = "week" -> 10080
                  start == period_start(p, call.current_utc)
              IN  ticks(start, call.current_utc)
                      = {[t |-> start.t + k * MINUTE, aware |-> start.aware] : k \in 0..(n - 1)}
        /\ ( /\ business_hours = {}
             /\ Len(timeline(call.store_id)) = 1
             /\ timeline(call.store_id)[1].ts = call.current_utc
             /\ timeline(call.store_id)[1].status = "active" )
           => /\ open_minutes(call.store_id, "hour", call.current_utc) = 60
              /\ active_minutes(call.store_id, "hour", call.current_utc) = 0

====
